---- MODULE Spec2Model ----
(***************************************************************************)
(* A model of nvblox's pending-update tracker (BlocksToUpdateTracker) and  *)
(* of its vertex welding routines (tests/lib/cuda/mesh_utils.cu).          *)
(*                                                                         *)
(* Three specifications share the module's variables:                      *)
(*   Spec      the tracker: one calling thread and the std::async tasks    *)
(*   SpecWeld  weldVerticesThrustAsync on one mesh block                   *)
(*   SpecCub   the fixed-capacity kernels and weldSingleBlockThrustAsync   *)
(*             run on the same input buffer                                *)
(***************************************************************************)
EXTENDS Integers, Sequences, FiniteSets, TLC

VARIABLES
  \* ---- BlocksToUpdateTracker ----
  sets,               \* the four Index3DSet members, keyed by the name add logs
  hasFreespace,       \* hasFreespaceLayer(projective_layer_type_)
  pc,                 \* where the calling thread is
  arg,                \* the running call: [op, vec, type]
  inflight,           \* std::async tasks launched and not yet finished
  ret,                \* what the last getBlocksToUpdate returned
  replay,             \* history: the sets after the calls applied one by one
  lastCall,           \* history: the last add/remove/markBlocksAsUpdated call
  onlyAddRemove,      \* history: no markBlocksAsUpdated was called so far
  ncalls,             \* history: number of mutating calls issued
  marked,             \* history: types marked as updated, no add called since
  keep,               \* the type whose returned vectors the caller holds on to
  snapshot,           \* the vector the caller holds on to
  \* ---- weldVerticesThrustAsync on one MeshBlock ----
  vertices,           \* mesh_block->vertices
  normals,            \* mesh_block->normals
  triangles,          \* mesh_block->triangles
  input_vertices,     \* the copy of the vertices taken on entry
  input_normals,      \* the copy of the normals taken on entry
  new_size,           \* iterator - vertices.begin()
  wpc,                \* where weldVerticesThrustAsync is
  round,              \* history: number of welds started on the block
  entry,              \* history: the block when the first weld started
  after1,             \* history: the block when the latest weld started
  other,              \* what the layer holds at the other listed index
  call_other,         \* history: was that index listed, and its block then
  \* ---- the single-block routines run on one input buffer ----
  d_in,               \* input_vertices
  inds_in,            \* input_indices
  kpc,                \* which routine runs, and its phase
  thread_keys,        \* the running kernel's keys, blocked across threads
  thread_values,      \* blockUniqueKernel's values
  thread_inds,        \* combinedSingleBlockKernel's indices
  head_flags,         \* FlagHeads output
  head_indices,       \* InclusiveSum output
  output_index,       \* the running kernel's shared counter
  item,               \* per thread: the next i of blockUniqueKernel's loop
  comb,               \* combinedSingleBlockKernel: d_out, inds_out, *num_out
  sorted_out,         \* blockSortKernel: d_out
  uniq,               \* blockUniqueKernel: d_out, *num_out
  thrust,             \* weldSingleBlockThrustAsync: output vertices, indices
  logged,             \* the entry points that logged "vector too long"
  num_out_host,       \* per entry point: the host copy of *num_out
  output_size         \* per entry point: output_vertices->size()

trackerVars ==
  <<sets, hasFreespace, pc, arg, inflight, ret, replay, lastCall,
    onlyAddRemove, ncalls, marked, keep, snapshot>>

weldVars ==
  <<vertices, normals, triangles, input_vertices, input_normals, new_size,
    wpc, round, entry, after1, other, call_other>>

cubVars ==
  <<d_in, inds_in, kpc, thread_keys, thread_values, thread_inds, head_flags,
    head_indices, output_index, item, comb, sorted_out, uniq, thrust,
    logged, num_out_host, output_size>>

vars == <<trackerVars, weldVars, cubVars>>

-----------------------------------------------------------------------------
(* Small helpers *)

Range(s) == {s[i] : i \in 1..Len(s)}

-----------------------------------------------------------------------------
(***************************************************************************)
(* BlocksToUpdateTracker                                                   *)
(***************************************************************************)

\* clearIfTooLarge's cap.
kMaxSize == 100000

\* Most mutating calls one behaviour issues.
MaxCalls == 3

\* Block indices. "A", "B", "C" are single Index3D values; "K" stands for a
\* run of kMaxSize distinct indices that are always passed together.
Items == {"A", "B", "C", "K"}

Weight(i) == IF i = "K" THEN kMaxSize ELSE 1

RECURSIVE SetSize(_)
\* Index3DSet::size()
SetSize(S) ==
  IF S = {} THEN 0
  ELSE LET x == CHOOSE y \in S : TRUE IN Weight(x) + SetSize(S \ {x})

\* The vectors the caller passes to add and to remove.
AddBatches == {<<"A", "B">>, <<"C">>, <<"B">>, <<"K", "A">>}
RemoveBatches == {<<"A">>, <<"K", "A">>}

\* BlocksToUpdateType, and one value outside the enumeration.
ValidTypes == {"kEsdf", "kMesh", "kFreespace", "kLayerStreamer"}
Types == ValidTypes \cup {"kInvalid"}

SetNames == {"esdf", "mesh", "layer_streamer", "freespace"}

\* The member each case of the two switch statements names.
SetOfType(t) ==
  CASE t = "kEsdf" -> "esdf"
    [] t = "kMesh" -> "mesh"
    [] t = "kFreespace" -> "freespace"
    [] t = "kLayerStreamer" -> "layer_streamer"

\* Mutant of TaskSets: the hasFreespaceLayer() test is dropped.
TaskSetsNoCapabilityTest(hf) ==
  <<"esdf", "mesh", "layer_streamer", "freespace">>

\* The members the add and remove lambdas touch, in the order they touch them.
TaskSets(hf) ==
  IF hf THEN <<"esdf", "mesh", "layer_streamer", "freespace">>
  ELSE <<"esdf", "mesh", "layer_streamer">>

\* clearIfTooLarge(set, name)
clearIfTooLarge(S) == IF SetSize(S) > kMaxSize THEN {} ELSE S

\* Mutant of InsertIdx: the cap is enforced as part of the insertion.
InsertIdxCapped(S, idx) == clearIfTooLarge(S \cup {idx})

\* set.insert(idx) as the add lambda does it.
InsertIdx(S, idx) == S \cup {idx}

\* Mutant of EraseIdx: nothing is erased.
EraseIdxKeeps(S, idx) == S

\* set.erase(idx)
EraseIdx(S, idx) == S \ {idx}

\* Mutant of ClearSet: the set keeps its indices.
ClearSetKeeps(S) == S

\* set.clear() as the markBlocksAsUpdated lambda does it.
ClearSet(S) == {}

\* getBlockAtIndex(index) of an index the layer has no block at.
Absent ==
  [present |-> FALSE, vertices |-> <<>>, normals |-> <<>>, triangles |-> <<>>]

NoArg == [op |-> "none", vec |-> <<>>, type |-> "kEsdf"]

\* Mutant of NoRet: an empty vector is handed to the caller.
ReturnedEmpty == [valid |-> TRUE, type |-> "kEsdf", blocks |-> {}]

\* No vector is in the caller's hands.
NoRet == [valid |-> FALSE, type |-> "kEsdf", blocks |-> {}]

\* Mutant of CopyOf: the returned vector is empty.
CopyOfNothing(S) == {}

\* {set.begin(), set.end()}: a vector built from the set's elements.
CopyOf(S) == S

\* LOG(FATAL) has not terminated the process.
Running == pc # "fatal"

\* Mutant of FutureReady: future_.wait() never returns.
FutureNeverReady == FALSE

\* Mutant of FutureReady: the launch does not wait for the previous task.
FutureReadyNoWait == TRUE

\* future_.wait() returns: the task future_ refers to has finished.
FutureReady == \A i \in 1..Len(inflight) : ~inflight[i].latest

\* future_ = std::async(std::launch::async, funct, ...)
Launch(op, vec, type) ==
  Append([i \in 1..Len(inflight) |-> [inflight[i] EXCEPT !.latest = FALSE]],
         [op |-> op, vec |-> vec, type |-> type, pos |-> 0, latest |-> TRUE])

-----------------------------------------------------------------------------
(* The calls applied one after another, each with its task run to the end. *)

RECURSIVE InsertAll(_, _, _)
InsertAll(S, vec, i) ==
  IF i > Len(vec) THEN S ELSE InsertAll(InsertIdx(S, vec[i]), vec, i + 1)

SeqAdd(st, vec, hf) ==
  [n \in SetNames |->
     LET c == clearIfTooLarge(st[n])
     IN IF n \in Range(TaskSets(hf)) THEN InsertAll(c, vec, 1) ELSE c]

SeqRemove(st, vec, hf) ==
  [n \in SetNames |->
     IF n \in Range(TaskSets(hf)) THEN st[n] \ Range(vec) ELSE st[n]]

SeqMark(st, type) ==
  IF type \in ValidTypes THEN [st EXCEPT ![SetOfType(type)] = {}] ELSE st

-----------------------------------------------------------------------------
(* The calling thread *)

\* The tracker does not touch mesh data.
TrackerOnly == UNCHANGED <<weldVars, cubVars>>

CanCall == Running /\ pc = "idle" /\ ncalls < MaxCalls

\* addBlocksToUpdate is entered: the lambda is built, nothing is touched yet.
AddCall(vec) ==
  /\ CanCall
  /\ pc' = "add_clear_esdf"
  /\ arg' = [op |-> "add", vec |-> vec, type |-> "kEsdf"]
  /\ ret' = NoRet
  /\ replay' = SeqAdd(replay, vec, hasFreespace)
  /\ lastCall' = [op |-> "add", vec |-> vec, type |-> "kEsdf"]
  /\ ncalls' = ncalls + 1
  /\ marked' = {}
  /\ UNCHANGED <<sets, hasFreespace, inflight, onlyAddRemove, keep,
                 snapshot>>
  /\ TrackerOnly

\* One clearIfTooLarge(<member>, name) of addBlocksToUpdate, on the calling
\* thread, before future_.wait().
AddClear(name, next) ==
  /\ Running
  /\ pc = "add_clear_" \o name
  /\ sets' = [sets EXCEPT ![name] = clearIfTooLarge(sets[name])]
  /\ pc' = next
  /\ UNCHANGED <<hasFreespace, arg, inflight, ret, replay, lastCall,
                 onlyAddRemove, ncalls, marked, keep, snapshot>>
  /\ TrackerOnly

\* future_.wait(); future_ = std::async(...); return.
WaitAndLaunch(at) ==
  /\ Running
  /\ pc = at
  /\ FutureReady
  /\ inflight' = Launch(arg.op, arg.vec, arg.type)
  /\ pc' = "idle"
  /\ arg' = NoArg
  /\ UNCHANGED <<sets, hasFreespace, ret, replay, lastCall, onlyAddRemove,
                 ncalls, marked, keep, snapshot>>
  /\ TrackerOnly

RemoveCall(vec) ==
  /\ CanCall
  /\ pc' = "remove_wait"
  /\ arg' = [op |-> "remove", vec |-> vec, type |-> "kEsdf"]
  /\ ret' = NoRet
  /\ replay' = SeqRemove(replay, vec, hasFreespace)
  /\ lastCall' = [op |-> "remove", vec |-> vec, type |-> "kEsdf"]
  /\ ncalls' = ncalls + 1
  /\ UNCHANGED <<sets, hasFreespace, inflight, onlyAddRemove, marked, keep,
                 snapshot>>
  /\ TrackerOnly

MarkCall(type) ==
  /\ CanCall
  /\ pc' = "mark_wait"
  /\ arg' = [op |-> "mark", vec |-> <<>>, type |-> type]
  /\ ret' = NoRet
  /\ replay' = SeqMark(replay, type)
  /\ lastCall' = [op |-> "mark", vec |-> <<>>, type |-> type]
  /\ onlyAddRemove' = FALSE
  /\ ncalls' = ncalls + 1
  /\ marked' = IF type \in ValidTypes THEN marked \cup {type} ELSE marked
  /\ UNCHANGED <<sets, hasFreespace, inflight, keep, snapshot>>
  /\ TrackerOnly

\* getBlocksToUpdate is entered.
GetCall(type) ==
  /\ Running
  /\ pc = "idle"
  /\ pc' = "get_wait"
  /\ arg' = [op |-> "get", vec |-> <<>>, type |-> type]
  /\ ret' = NoRet
  /\ UNCHANGED <<sets, hasFreespace, inflight, replay, lastCall,
                 onlyAddRemove, ncalls, marked, keep, snapshot>>
  /\ TrackerOnly

\* future_.wait(), then the switch: a copy of the member, or LOG(FATAL).
GetReturn ==
  /\ Running
  /\ pc = "get_wait"
  /\ FutureReady
  /\ IF arg.type \in ValidTypes
     THEN /\ ret' = [valid |-> TRUE, type |-> arg.type,
                     blocks |-> CopyOf(sets[SetOfType(arg.type)])]
          /\ snapshot' = IF arg.type = keep THEN ret' ELSE snapshot
          /\ pc' = "idle"
     ELSE /\ ret' = NoRet
          /\ snapshot' = snapshot
          /\ pc' = "fatal"
  /\ arg' = NoArg
  /\ UNCHANGED <<sets, hasFreespace, inflight, replay, lastCall,
                 onlyAddRemove, ncalls, marked, keep>>
  /\ TrackerOnly

-----------------------------------------------------------------------------
(* The task thread std::async starts *)

\* Number of set operations the lambda of task t performs.
TaskLen(t, hf) ==
  IF t.op = "mark" THEN 1 ELSE Len(TaskSets(hf)) * Len(t.vec)

\* The sets after operation number t.pos of task t.
TaskOp(st, t, hf) ==
  LET n == Len(TaskSets(hf))
      m == Len(t.vec)
  IN CASE t.op = "add" ->
            \* member by member, each inserting the whole range
            LET name == TaskSets(hf)[(t.pos \div m) + 1]
                idx == t.vec[(t.pos % m) + 1]
            IN [st EXCEPT ![name] = InsertIdx(st[name], idx)]
       [] t.op = "remove" ->
            \* index by index, each erased from every member
            LET idx == t.vec[(t.pos \div n) + 1]
                name == TaskSets(hf)[(t.pos % n) + 1]
            IN [st EXCEPT ![name] = EraseIdx(st[name], idx)]
       [] t.op = "mark" ->
            [st EXCEPT ![SetOfType(t.type)] = ClearSet(st[SetOfType(t.type)])]

\* One operation of a running lambda.
TaskStep(k) ==
  /\ Running
  /\ k \in 1..Len(inflight)
  /\ inflight[k].pos < TaskLen(inflight[k], hasFreespace)
  /\ IF inflight[k].op = "mark" /\ inflight[k].type \notin ValidTypes
     THEN \* default: LOG(FATAL)
          /\ pc' = "fatal"
          /\ UNCHANGED <<sets, inflight>>
     ELSE /\ sets' = TaskOp(sets, inflight[k], hasFreespace)
          /\ inflight' = [inflight EXCEPT ![k].pos = @ + 1]
          /\ pc' = pc
  /\ UNCHANGED <<hasFreespace, arg, ret, replay, lastCall, onlyAddRemove,
                 ncalls, marked, keep, snapshot>>
  /\ TrackerOnly

\* The lambda returns: the task's future becomes ready.
TaskFinish(k) ==
  /\ Running
  /\ k \in 1..Len(inflight)
  /\ inflight[k].pos = TaskLen(inflight[k], hasFreespace)
  /\ inflight' = [i \in 1..(Len(inflight) - 1) |->
                    IF i < k THEN inflight[i] ELSE inflight[i + 1]]
  /\ UNCHANGED <<sets, hasFreespace, pc, arg, ret, replay, lastCall,
                 onlyAddRemove, ncalls, marked, keep, snapshot>>
  /\ TrackerOnly

-----------------------------------------------------------------------------

\* The tracker after construction, apart from what the caller does with the
\* vectors it gets.
TrackerFields ==
  /\ sets = [n \in SetNames |-> {}]
  /\ hasFreespace \in BOOLEAN
  /\ pc = "idle"
  /\ arg = NoArg
  /\ inflight = <<>>
  /\ ret = NoRet
  /\ replay = [n \in SetNames |-> {}]
  /\ lastCall = NoArg
  /\ onlyAddRemove = TRUE
  /\ ncalls = 0
  /\ marked = {}
  /\ snapshot = NoRet

\* The caller uses every vector it gets at once and drops it.
TrackerInit == TrackerFields /\ keep = "none"

\* No mesh block is being welded.
WeldIdle ==
  /\ vertices = <<>>
  /\ normals = <<>>
  /\ triangles = <<>>
  /\ input_vertices = <<>>
  /\ input_normals = <<>>
  /\ new_size = 0
  /\ wpc = "off"
  /\ round = 0
  /\ entry = [vertices |-> <<>>, normals |-> <<>>, triangles |-> <<>>]
  /\ after1 = [vertices |-> <<>>, normals |-> <<>>, triangles |-> <<>>]
  /\ other = Absent
  /\ call_other = [listed |-> FALSE, block |-> Absent]

\* num_out_host before num_out.clone(MemoryType::kHost).
NotCloned == -2

\* No single-block routine is running.
CubIdle ==
  /\ d_in = <<>>
  /\ inds_in = <<>>
  /\ kpc = "off"
  /\ thread_keys = <<>>
  /\ thread_values = <<>>
  /\ thread_inds = <<>>
  /\ head_flags = <<>>
  /\ head_indices = <<>>
  /\ output_index = 0
  /\ item = <<>>
  /\ comb = [d_out |-> <<>>, inds_out |-> <<>>, num_out |-> -1]
  /\ sorted_out = <<>>
  /\ uniq = [d_out |-> <<>>, num_out |-> -1]
  /\ thrust = [vertices |-> <<>>, indices |-> <<>>]
  /\ logged = {}
  /\ num_out_host = [combined |-> NotCloned, unique |-> NotCloned]
  /\ output_size = [combined |-> Len(d_in), unique |-> Len(d_in)]

Init == TrackerInit /\ WeldIdle /\ CubIdle

Next ==
  \/ \E vec \in AddBatches : AddCall(vec)
  \/ AddClear("esdf", "add_clear_mesh")
  \/ AddClear("mesh", "add_clear_layer_streamer")
  \/ AddClear("layer_streamer", "add_clear_freespace")
  \/ AddClear("freespace", "add_wait")
  \/ WaitAndLaunch("add_wait")
  \/ \E vec \in RemoveBatches : RemoveCall(vec)
  \/ WaitAndLaunch("remove_wait")
  \/ \E type \in Types : MarkCall(type)
  \/ WaitAndLaunch("mark_wait")
  \/ \E type \in Types : GetCall(type)
  \/ GetReturn
  \/ \E k \in 1..Len(inflight) : TaskStep(k)
  \/ \E k \in 1..Len(inflight) : TaskFinish(k)

Spec == Init /\ [][Next]_vars

\* The caller holds on to the vector of its latest getBlocksToUpdate(kEsdf)
\* while it goes on calling the tracker.
InitSnapshot ==
  /\ TrackerFields
  /\ ~hasFreespace
  /\ keep = "kEsdf"
  /\ WeldIdle
  /\ CubIdle

SpecSnapshot == InitSnapshot /\ [][Next]_vars

\* The steps the calling thread takes inside a call it has entered.
CallerStep ==
  \/ AddClear("esdf", "add_clear_mesh")
  \/ AddClear("mesh", "add_clear_layer_streamer")
  \/ AddClear("layer_streamer", "add_clear_freespace")
  \/ AddClear("freespace", "add_wait")
  \/ WaitAndLaunch("add_wait")
  \/ WaitAndLaunch("remove_wait")
  \/ WaitAndLaunch("mark_wait")
  \/ GetReturn

\* The steps of the thread std::async runs the lambda on.
TaskThreadStep ==
  \/ \E k \in 1..Len(inflight) : TaskStep(k)
  \/ \E k \in 1..Len(inflight) : TaskFinish(k)

\* The tracker of a layer type without freespace, no call made yet.
TrackerOff == TrackerInit /\ ~hasFreespace

InitFair == TrackerOff /\ WeldIdle /\ CubIdle

\* Both threads are scheduled: a thread that can take a step takes one. The
\* caller is free to make no further call.
SpecFair ==
  /\ InitFair
  /\ [][Next]_vars
  /\ WF_vars(CallerStep)
  /\ WF_vars(TaskThreadStep)

-----------------------------------------------------------------------------
(***************************************************************************)
(* Properties of the tracker (checked under Spec)                          *)
(***************************************************************************)

\* getBlocksToUpdate has returned a copy to the caller.
GetReturned == pc = "idle" /\ ret.valid

\* No task is in flight and the caller is between calls.
Drained == pc = "idle" /\ inflight = <<>>

\* The places where the calling thread is about to read or clear a member
\* without having waited on future_.
UnsyncedAccessPcs ==
  {"add_clear_esdf", "add_clear_mesh", "add_clear_layer_streamer",
   "add_clear_freespace"}

\* C1 (as claimed): after add/remove calls only, getBlocksToUpdate returns
\* the set obtained by applying the calls one after another in call order.
C1_ReplayInCallOrder ==
  (GetReturned /\ onlyAddRemove) => ret.blocks = replay[SetOfType(ret.type)]

\* C2: at most one mutation task is in flight at any moment; a task is
\* launched only when no task is in flight, and the launching call returns
\* (the caller is idle again) with its own task not yet run.
C2_OneTaskInFlight ==
  /\ [](Len(inflight) <= 1)
  /\ [][Len(inflight') > Len(inflight) =>
          /\ Len(inflight) = 0
          /\ pc' = "idle"
          /\ inflight'[1].pos = 0]_vars

\* C2 witness: a second call has launched its task after the first one
\* finished, and has returned while that task has not run.
C2_Witness ==
  /\ pc = "idle"
  /\ ncalls = 2
  /\ Len(inflight) = 1
  /\ inflight[1].pos = 0

\* C3 (as claimed): while a mutation task is in flight the calling thread is
\* never at a step that reads or clears a pending set.
C3_NoCallerAccessDuringTask ==
  pc \in UnsyncedAccessPcs => inflight = <<>>

\* The add that was called last passes more than kMaxSize unique indices and
\* the returned copy is of a member that add inserts into.
OverCapAddThenGet ==
  /\ GetReturned
  /\ lastCall.op = "add"
  /\ SetSize(Range(lastCall.vec)) > kMaxSize
  /\ SetOfType(ret.type) \in Range(TaskSets(hasFreespace))

\* C4 (as claimed): after an add that inserts more than kMaxSize unique
\* indices into a set, getBlocksToUpdate right after it returns the empty set.
C4_ReadsBackEmpty == OverCapAddThenGet => ret.blocks = {}

\* C4 (amended): after such an add, getBlocksToUpdate right after it returns
\* a set holding every index of that add, hence more than kMaxSize indices.
C4_ReadsBackFilled ==
  OverCapAddThenGet =>
    /\ Range(lastCall.vec) \subseteq ret.blocks
    /\ SetSize(ret.blocks) > kMaxSize

\* C4 witness: a get right after an over-cap add has returned a filled set.
C4_Witness == OverCapAddThenGet /\ ret.blocks # {}

\* C5: without freespace capability the freespace set is empty in every
\* state, and once the task of add(vec) has finished, every index of vec is
\* in the esdf, mesh and layer_streamer sets.
C5_FreespaceConditional ==
  ~hasFreespace =>
    /\ sets["freespace"] = {}
    /\ (Drained /\ lastCall.op = "add") =>
         \A n \in {"esdf", "mesh", "layer_streamer"} :
            Range(lastCall.vec) \subseteq sets[n]

\* C5 witness: add([A, B]) has landed without freespace capability, after
\* earlier calls.
C5_Witness ==
  /\ ~hasFreespace
  /\ Drained
  /\ ncalls > 1
  /\ lastCall.op = "add"
  /\ lastCall.vec = <<"A", "B">>
  /\ \A n \in {"esdf", "mesh", "layer_streamer"} : {"A", "B"} \subseteq sets[n]
  /\ sets["freespace"] = {}

\* The task in flight has just performed one operation of its lambda.
TaskStepped ==
  /\ inflight # <<>>
  /\ Len(inflight') = Len(inflight)
  /\ inflight'[1].pos = inflight[1].pos + 1

\* C12: a step of the task of markBlocksAsUpdated(type) empties the set of
\* that type and leaves the other three as they are, and a getBlocksToUpdate
\* of a type that was marked, with no add called since, returns the empty
\* set.
C12_MarkEmptiesRequested ==
  /\ []((GetReturned /\ ret.type \in marked) => ret.blocks = {})
  /\ [][(TaskStepped /\ inflight[1].op = "mark") =>
          /\ sets'[SetOfType(inflight[1].type)] = {}
          /\ \A n \in SetNames \ {SetOfType(inflight[1].type)} :
                sets'[n] = sets[n]]_vars

\* C12 witness: after an add, and a markBlocksAsUpdated(kEsdf) that no add
\* followed, getBlocksToUpdate(kEsdf) has returned the empty set while the
\* mesh set still holds indices.
C12_Witness ==
  /\ GetReturned
  /\ ret.type = "kEsdf"
  /\ "kEsdf" \in marked
  /\ ret.blocks = {}
  /\ sets["mesh"] # {}

\* A markBlocksAsUpdated task with a type outside the enumeration is in
\* flight.
InvalidMarkInFlight ==
  \E k \in 1..Len(inflight) :
    inflight[k].op = "mark" /\ inflight[k].type \notin ValidTypes

\* C13: getBlocksToUpdate with a type outside the enumeration can only end
\* in the fatal state, with no vector returned and no set changed; the task
\* of markBlocksAsUpdated with such a type changes no set and can only end
\* in the fatal state; and nothing happens after the fatal state.
C13_InvalidSelectorFatal ==
  /\ [][pc # "fatal"]_vars
  /\ [][(pc = "get_wait" /\ arg.type \notin ValidTypes /\ pc' # pc) =>
          /\ pc' = "fatal"
          /\ ~ret'.valid
          /\ sets' = sets]_vars
  /\ [][InvalidMarkInFlight =>
          /\ inflight' = inflight
          /\ pc' = "fatal" => sets' = sets]_vars
  /\ [][pc' = "fatal" => sets' = sets]_vars

\* C13 witness: the task of markBlocksAsUpdated(kInvalid) has ended the
\* process while the sets hold the indices of an earlier add.
C13_Witness ==
  /\ pc = "fatal"
  /\ InvalidMarkInFlight
  /\ lastCall.op = "mark"
  /\ sets["esdf"] # {}

\* C15: once removeBlocksToUpdate(vec) and its task have completed no set
\* holds an index of vec, and from the launch of that task until the next
\* mutating call the sets lose nothing but indices of vec.
C15_RemoveErasesOnlyBlocks ==
  /\ []((Drained /\ lastCall.op = "remove") =>
          \A n \in SetNames : sets[n] \cap Range(lastCall.vec) = {})
  /\ [][(lastCall.op = "remove" /\ lastCall' = lastCall /\
           pc # "remove_wait") =>
          \A n \in SetNames :
             /\ sets'[n] \subseteq sets[n]
             /\ (sets[n] \ sets'[n]) \subseteq Range(lastCall.vec)]_vars

\* C15 witness: remove([A]) has completed after an add of A and B: A is
\* gone and B is still there.
C15_Witness ==
  /\ Drained
  /\ lastCall.op = "remove"
  /\ lastCall.vec = <<"A">>
  /\ \A n \in {"esdf", "mesh", "layer_streamer"} :
        "B" \in sets[n] /\ "A" \notin sets[n]

\* C16: getBlocksToUpdate(type) returns only when no task is in flight, it
\* returns the content the set of that type has at that moment, entering
\* and leaving it change no set, and a vector the caller holds on to is not
\* changed by anything but the return of a later getBlocksToUpdate.
C16_SnapshotOfRequested ==
  /\ [][(pc = "get_wait" /\ pc' = "idle") =>
          /\ inflight = <<>>
          /\ sets' = sets
          /\ ret'.valid
          /\ ret'.type = arg.type
          /\ ret'.blocks = sets[SetOfType(arg.type)]
          /\ arg.type = keep => snapshot' = ret']_vars
  /\ [][(pc = "idle" /\ pc' = "get_wait") => sets' = sets]_vars
  /\ [][pc # "get_wait" => snapshot' = snapshot]_vars

\* C16 witness: the caller holds a vector with A in it while later calls
\* have emptied the set it was copied from.
C16_Witness ==
  /\ Drained
  /\ snapshot.valid
  /\ "A" \in snapshot.blocks
  /\ lastCall.op \in {"remove", "mark"}
  /\ sets["esdf"] = {}

\* The calling thread is inside a call.
InCall == pc \notin {"idle", "fatal"}

\* C21 (as claimed): every launched task runs to completion and every call
\* returns.
C21_EveryCallReturns ==
  /\ (inflight # <<>>) ~> (inflight = <<>>)
  /\ InCall ~> (pc = "idle")

\* C21 (amended): with both threads scheduled fairly, whenever a call is
\* running or a task is in flight, a moment follows at which the call has
\* returned and no task is in flight, unless LOG(FATAL) ends the process
\* because of a type outside the enumeration.
C21_ReturnsOrFatal ==
  (InCall \/ inflight # <<>>) ~> (Drained \/ pc = "fatal")

\* C21 witness: a call is waiting on future_ while the task of an earlier
\* call is part of the way through its lambda.
C21_Witness ==
  /\ pc \in {"add_wait", "remove_wait", "mark_wait", "get_wait"}
  /\ inflight # <<>>
  /\ inflight[1].pos > 0
  /\ inflight[1].pos < TaskLen(inflight[1], hasFreespace)

-----------------------------------------------------------------------------
(***************************************************************************)
(* Vertices, and the thrust primitives the unbounded welding path uses     *)
(***************************************************************************)

\* The kernels' kValueScale.
kValueScale == 1000

\* A coordinate c stands for the float c / (kValueScale * SubCells), which
\* is taken to be exactly representable: SubCells coordinates share one
\* quantisation cell of width 1 / kValueScale.
SubCells == 2

\* Most vertices a buffer or mesh block holds on entry.
MaxVerts == 4

\* Times weldVerticesThrustAsync is called on the same block.
MaxWelds == 2

\* Vector3f values of the input.
VertexPool == {<<0, 0, 0>>, <<0, 0, 1>>, <<0, 2, 0>>, <<2, 0, 0>>}

NormalPool == {"n1", "n2"}

\* VectorCompare<Vector3f>()(a, b): a before b in the lexicographic order.
VectorCompare(a, b) ==
  IF a[1] # b[1] THEN a[1] < b[1]
  ELSE IF a[2] # b[2] THEN a[2] < b[2]
  ELSE a[3] < b[3]

RECURSIVE InsertSorted(_, _)
InsertSorted(s, v) ==
  IF s = <<>> THEN <<v>>
  ELSE IF VectorCompare(v, Head(s)) THEN <<v>> \o s
  ELSE <<Head(s)>> \o InsertSorted(Tail(s), v)

\* Mutant of ThrustSort: the range is left in its order.
ThrustSortLeavesOrder(s) == s

RECURSIVE ThrustSort(_)
\* thrust::sort(first, last, VectorCompare<Vector3f>())
ThrustSort(s) ==
  IF s = <<>> THEN <<>>
  ELSE InsertSorted(ThrustSort(SubSeq(s, 1, Len(s) - 1)), s[Len(s)])

RECURSIVE UniqueFrom(_, _)
UniqueFrom(s, i) ==
  IF i > Len(s) THEN <<>>
  ELSE IF i > 1 /\ s[i] = s[i - 1] THEN UniqueFrom(s, i + 1)
  ELSE <<s[i]>> \o UniqueFrom(s, i + 1)

\* Mutant of ThrustUnique: no element is removed.
ThrustUniqueKeepsAll(s) == s

\* thrust::unique(first, last): the range up to the returned iterator, the
\* first element of every run of equal elements.
ThrustUnique(s) == UniqueFrom(s, 1)

RECURSIVE UpperBoundFrom(_, _, _, _)
UpperBoundFrom(s, v, first, len) ==
  IF len = 0 THEN first
  ELSE LET half == len \div 2
           mid == first + half
       IN IF ~VectorCompare(v, s[mid + 1])
          THEN UpperBoundFrom(s, v, mid + 1, len - half - 1)
          ELSE UpperBoundFrom(s, v, first, half)

\* Mutant of LowerBound: thrust::upper_bound is called instead.
UpperBound(s, v) == UpperBoundFrom(s, v, 0, Len(s))

RECURSIVE LowerBoundFrom(_, _, _, _)
\* The binary search over [first, first + len), positions counted from 0.
LowerBoundFrom(s, v, first, len) ==
  IF len = 0 THEN first
  ELSE LET half == len \div 2
           mid == first + half
       IN IF VectorCompare(s[mid + 1], v)
          THEN LowerBoundFrom(s, v, mid + 1, len - half - 1)
          ELSE LowerBoundFrom(s, v, first, half)

\* thrust::lower_bound for one searched value: the position (from 0) of the
\* first element of s that is not before v.
LowerBound(s, v) == LowerBoundFrom(s, v, 0, Len(s))

\* device_vector::resizeAsync(n) to a size not above the current one.
Resize(s, n) == SubSeq(s, 1, n)

\* The identity index list 0..n-1 the extraction stage writes.
IdentityIndices(n) == [i \in 1..n |-> i - 1]

\* The elements of in that thrust::scatter writes to out[t] under map.
WritersIn(in, map, t) == {i \in 1..Len(in) : map[i] = t}

\* thrust::scatter(in, map, out): the results it can leave in out. Where map
\* sends several elements to one slot the writes are unordered, and the slot
\* keeps whichever is written last.
Scatter(in, map, out) ==
  {[k \in 1..Len(out) |->
      IF WritersIn(in, map, k - 1) # {} THEN in[last[k - 1]] ELSE out[k]] :
     last \in {f \in [0..(Len(out) - 1) -> 1..Len(in)] :
                 \A t \in 0..(Len(out) - 1) :
                    IF WritersIn(in, map, t) # {}
                    THEN f[t] \in WritersIn(in, map, t)
                    ELSE f[t] = 1}}

\* Mutant of TooSmall: only blocks of fewer than 3 vertices are skipped.
TooSmallBelow3(n) == n < 3

\* mesh_block->size() <= 3
TooSmall(n) == n <= 3

\* One pass of the loop body over a block that is not skipped, from the
\* copies to the scatter: the blocks it can leave.
WeldedBlocks(b) ==
  LET u == ThrustUnique(ThrustSort(b.vertices))
      tri == [i \in 1..Len(b.triangles) |->
                IF i <= Len(b.vertices) THEN LowerBound(u, b.vertices[i])
                ELSE b.triangles[i]]
  IN {[present |-> TRUE, vertices |-> u, normals |-> nn, triangles |-> tri] :
        nn \in Scatter(b.normals, tri, Resize(b.normals, Len(u)))}

-----------------------------------------------------------------------------
(***************************************************************************)
(* weldVerticesThrustAsync, one block of the list                          *)
(***************************************************************************)

WeldOnly == UNCHANGED <<trackerVars, cubVars>>

Block == [vertices |-> vertices, normals |-> normals, triangles |-> triangles]

\* A call whose list names the other index first: getBlockAtIndex of it, the
\* skip test, and the loop body if the block is not skipped.
WeldOther ==
  /\ wpc \in {"ready", "done"}
  /\ round < MaxWelds
  /\ call_other' = [listed |-> TRUE, block |-> other]
  /\ IF ~other.present \/ TooSmall(Len(other.vertices))
     THEN other' = other
     ELSE other' \in WeldedBlocks(other)
  /\ wpc' = "main"
  /\ UNCHANGED <<vertices, normals, triangles, input_vertices, input_normals,
                 new_size, round, entry, after1>>
  /\ WeldOnly

\* The loop body is entered for the block, as the first index of a call's
\* list or after the other index: it is skipped when it has 3 vertices or
\* fewer, else the vertices and normals are copied.
WeldStart ==
  /\ wpc \in {"ready", "done", "main"}
  /\ round < MaxWelds
  /\ round' = round + 1
  /\ entry' = IF round = 0 THEN Block ELSE entry
  /\ after1' = Block
  /\ call_other' = IF wpc = "main" THEN call_other
                   ELSE [listed |-> FALSE, block |-> other]
  /\ IF TooSmall(Len(vertices))
     THEN /\ wpc' = "done"
          /\ UNCHANGED <<input_vertices, input_normals>>
     ELSE /\ wpc' = "copied"
          /\ input_vertices' = vertices
          /\ input_normals' = normals
  /\ UNCHANGED <<vertices, normals, triangles, new_size, other>>
  /\ WeldOnly

\* thrust::sort of the block's vertices.
WeldSort ==
  /\ wpc = "copied"
  /\ vertices' = ThrustSort(vertices)
  /\ wpc' = "sorted"
  /\ UNCHANGED <<normals, triangles, input_vertices, input_normals, new_size,
                 round, entry, after1, other, call_other>>
  /\ WeldOnly

\* thrust::unique, and new_size from the iterator it returns. What lies past
\* the iterator is unspecified and is cut off by the resize that follows.
WeldUnique ==
  /\ wpc = "sorted"
  /\ LET u == ThrustUnique(vertices)
     IN /\ new_size' = Len(u)
        /\ vertices' = u \o SubSeq(vertices, Len(u) + 1, Len(vertices))
  /\ wpc' = "uniqued"
  /\ UNCHANGED <<normals, triangles, input_vertices, input_normals, round,
                 entry, after1, other, call_other>>
  /\ WeldOnly

\* vertices.resizeAsync(new_size); normals.resizeAsync(new_size)
WeldResize ==
  /\ wpc = "uniqued"
  /\ vertices' = Resize(vertices, new_size)
  /\ normals' = Resize(normals, new_size)
  /\ wpc' = "resized"
  /\ UNCHANGED <<triangles, input_vertices, input_normals, new_size, round,
                 entry, after1, other, call_other>>
  /\ WeldOnly

\* thrust::lower_bound of every copied vertex in the deduplicated vertices,
\* written to the triangles from their first entry on.
WeldLowerBound ==
  /\ wpc = "resized"
  /\ Len(input_vertices) <= Len(triangles)
  /\ triangles' = [i \in 1..Len(triangles) |->
                     IF i <= Len(input_vertices)
                     THEN LowerBound(vertices, input_vertices[i])
                     ELSE triangles[i]]
  /\ wpc' = "bound"
  /\ UNCHANGED <<vertices, normals, input_vertices, input_normals, new_size,
                 round, entry, after1, other, call_other>>
  /\ WeldOnly

\* thrust::scatter(input_normals, triangles, normals)
WeldScatter ==
  /\ wpc = "bound"
  /\ normals' \in Scatter(input_normals, triangles, normals)
  /\ wpc' = "done"
  /\ UNCHANGED <<vertices, triangles, input_vertices, input_normals,
                 new_size, round, entry, after1, other, call_other>>
  /\ WeldOnly

\* A mesh block as the extraction stage leaves it: as many normals as
\* vertices, and the identity index list.
WeldInit ==
  /\ \E n \in 0..MaxVerts :
        /\ vertices \in [1..n -> VertexPool]
        /\ normals \in [1..n -> NormalPool]
        /\ triangles = IdentityIndices(n)
  /\ input_vertices = <<>>
  /\ input_normals = <<>>
  /\ new_size = 0
  /\ wpc = "ready"
  /\ round = 0
  /\ entry = [vertices |-> <<>>, normals |-> <<>>, triangles |-> <<>>]
  /\ after1 = [vertices |-> <<>>, normals |-> <<>>, triangles |-> <<>>]
  /\ other = Absent
  /\ call_other = [listed |-> FALSE, block |-> Absent]

InitWeld == TrackerOff /\ WeldInit /\ CubIdle

NextWeld ==
  \/ WeldStart
  \/ WeldSort
  \/ WeldUnique
  \/ WeldResize
  \/ WeldLowerBound
  \/ WeldScatter

SpecWeld == InitWeld /\ [][NextWeld]_vars

\* Vertices of the blocks of a layer with two listed indices.
ListPool == {<<0, 0, 0>>, <<0, 0, 1>>}

\* A block of n vertices with alternating normals and the identity index
\* list.
ListBlock(v) ==
  [present |-> TRUE,
   vertices |-> v,
   normals |-> [i \in 1..Len(v) |-> IF i % 2 = 1 THEN "n1" ELSE "n2"],
   triangles |-> IdentityIndices(Len(v))]

\* What the layer can hold at the other index: nothing, an empty block, a
\* block of 3 vertices, or a block of 4.
OtherBlocks ==
  {Absent} \cup
  {ListBlock(v) : v \in UNION {[1..n -> ListPool] : n \in {0, 3, 4}}}

\* A layer with a block at one index and possibly one at the other.
WeldListInit ==
  /\ \E v \in UNION {[1..n -> ListPool] : n \in 0..MaxVerts} :
        /\ vertices = ListBlock(v).vertices
        /\ normals = ListBlock(v).normals
        /\ triangles = ListBlock(v).triangles
  /\ other \in OtherBlocks
  /\ call_other = [listed |-> FALSE, block |-> Absent]
  /\ input_vertices = <<>>
  /\ input_normals = <<>>
  /\ new_size = 0
  /\ wpc = "ready"
  /\ round = 0
  /\ entry = [vertices |-> <<>>, normals |-> <<>>, triangles |-> <<>>]
  /\ after1 = [vertices |-> <<>>, normals |-> <<>>, triangles |-> <<>>]

InitWeldList == TrackerOff /\ WeldListInit /\ CubIdle

NextWeldList ==
  \/ WeldOther
  \/ NextWeld

SpecWeldList == InitWeldList /\ [][NextWeldList]_vars

-----------------------------------------------------------------------------
(***************************************************************************)
(* Properties of the unbounded welding path (checked under SpecWeld)       *)
(***************************************************************************)

\* The first weld of a block of more than 3 vertices has returned.
FirstWeldDone == wpc = "done" /\ round = 1 /\ Len(entry.vertices) > 3

\* A later weld of the block has returned.
ReweldDone == wpc = "done" /\ round >= 2

\* C6: after the weld of a block with more than 3 vertices and an identity
\* index list, there are as many vertices as distinct vertex values on entry,
\* and slots that held equal vertices have equal triangle indices.
C6_CountAndGroups ==
  FirstWeldDone =>
    /\ Len(vertices) = Cardinality(Range(entry.vertices))
    /\ \A i, j \in 1..Len(entry.vertices) :
          entry.vertices[i] = entry.vertices[j] => triangles[i] = triangles[j]

\* C6 witness: a block with duplicates has been welded to fewer vertices.
C6_Witness ==
  /\ FirstWeldDone
  /\ Len(vertices) < Len(entry.vertices)
  /\ Len(vertices) > 1

FirstOccurrence(t) ==
  CHOOSE i \in 1..Len(entry.vertices) :
    /\ entry.vertices[i] = vertices[t]
    /\ \A j \in 1..(i - 1) : entry.vertices[j] # vertices[t]

\* C8 (as claimed): after the weld there are as many normals as vertices and
\* normals[t] is the normal paired on entry with the first occurrence of the
\* group at vertices[t], whatever order the scatter writes land in.
C8_NormalOfFirstOccurrence ==
  FirstWeldDone =>
    /\ Len(normals) = Len(vertices)
    /\ \A t \in 1..Len(vertices) :
          normals[t] = entry.normals[FirstOccurrence(t)]

\* The block of the latest call, as a block of the layer.
MainBefore == [present |-> TRUE] @@ after1

MainNow == [present |-> TRUE] @@ Block

\* A block the loop has to skip is as it was when the call began.
LeftAlone(before, now) ==
  (~before.present \/ Len(before.vertices) <= 3) => now = before

\* A block the loop has to weld is welded: it holds each of its former
\* vertices once, every former slot's triangle index refers to that slot's
\* vertex, and it has as many normals as vertices.
IsWelded(before, now) ==
  (before.present /\ Len(before.vertices) > 3) =>
    /\ Range(now.vertices) = Range(before.vertices)
    /\ Len(now.vertices) = Cardinality(Range(before.vertices))
    /\ Len(now.normals) = Len(now.vertices)
    /\ \A i \in 1..Len(before.vertices) :
          /\ now.triangles[i] \in 0..(Len(now.vertices) - 1)
          /\ now.vertices[now.triangles[i] + 1] = before.vertices[i]

\* C14: when weldVerticesThrustAsync returns, a listed block that is absent
\* or has 3 vertices or fewer is as it was when the call began (vertices,
\* normals and triangle indices), every listed block of more than 3 vertices
\* is welded, whatever was skipped before it, and a block that is not listed
\* is as it was.
C14_SkippedLeftAlone ==
  wpc = "done" =>
    /\ LeftAlone(MainBefore, MainNow)
    /\ IsWelded(MainBefore, MainNow)
    /\ call_other.listed =>
         /\ LeftAlone(call_other.block, other)
         /\ IsWelded(call_other.block, other)
    /\ ~call_other.listed => other = call_other.block

\* C14 witness: a call that listed an absent block and then a block of more
\* than 3 vertices with duplicates has returned with that block welded.
C14_Witness ==
  /\ wpc = "done"
  /\ call_other.listed
  /\ ~other.present
  /\ Len(after1.vertices) > 3
  /\ Len(vertices) < Len(after1.vertices)

\* C17: after the first weld of a block whose triangle indices were the
\* identity 0..N-1, every triangle index is a position of the vertices the
\* block now has, and the vertex at triangles[i] is the vertex slot i held
\* on entry.
C17_TrianglesValid ==
  (wpc = "done" /\ round = 1) =>
    \A i \in 1..Len(triangles) :
       /\ triangles[i] \in 0..(Len(vertices) - 1)
       /\ i <= Len(entry.vertices) =>
            vertices[triangles[i] + 1] = entry.vertices[i]

\* C17 witness: a block of more than 3 vertices has been welded to 2, and
\* its triangle indices are no longer the identity.
C17_Witness ==
  /\ FirstWeldDone
  /\ Len(vertices) = 2
  /\ triangles # entry.triangles
  /\ triangles[Len(triangles)] = 0

-----------------------------------------------------------------------------
(***************************************************************************)
(* The fixed-capacity kernels (one thread block) and the unbounded         *)
(* single-buffer weld, run one after the other on the same input. The      *)
(* routines share only the read-only input, so the order of the runs does  *)
(* not matter to their results.                                            *)
(***************************************************************************)

\* The kernels' template parameters. The host instantiates them with
\* kNumThreads = 128 and kNumItemsPerThread = 16.
BLOCK_THREADS == 2
ITEMS_PER_THREAD == 2

\* Slots of one thread block.
Capacity == BLOCK_THREADS * ITEMS_PER_THREAD

\* A uint64_t key is written <<c, v>>: <<0, h>> is the hash h >= 0, <<1, h>>
\* is a hash h < 0 after the cast to unsigned int (h + 2^32, above every
\* <<0, _>>), and <<2, 0>> is SIZE_MAX. The pairs are ordered as the numbers
\* they stand for.
KeyLess(a, b) == a[1] < b[1] \/ (a[1] = b[1] /\ a[2] < b[2])

\* static_cast<unsigned int>(h)
Unsigned32(h) == IF h >= 0 THEN <<0, h>> ELSE <<1, h>>

\* SIZE_MAX, the key of a slot past num_vals.
SIZE_MAX == <<2, 0>>

\* Input vertices of the single-block routines: two that differ but share a
\* quantisation cell, one of a cell with a larger hash, and one of a cell
\* whose hash is negative before the cast.
CubPool ==
  {<<0, 0, 0>>, <<-1, 0, 0>>, <<0, SubCells, 0>>, <<-SubCells, 0, 0>>}

\* A slot of an output buffer that no kernel has written.
Unwritten == <<>>

\* Vector3f::Zero()
ZeroVertex == <<0, 0, 0>>

\* The float to int conversion of Index3D(x, y, z): towards zero.
TruncDiv(a, b) == IF a >= 0 THEN a \div b ELSE -((-a) \div b)

\* int(coordinate * kValueScale) for the float a coordinate stands for.
Quantize(c) == TruncDiv(c * kValueScale, kValueScale * SubCells)

\* Index3DHash (nvblox/core/hash.h), cast to unsigned int.
Index3DHash(idx) ==
  Unsigned32(idx[1] + idx[2] * 17191 + idx[3] * 17191 * 17191)

\* thread_keys[i] of a loaded vertex.
VertexKey(v) ==
  Index3DHash(<<Quantize(v[1]), Quantize(v[2]), Quantize(v[3])>>)

\* The load loop of the three kernels: slot p (from 1) of the block.
LoadKeys(in) ==
  [p \in 1..Capacity |->
     IF p - 1 >= Len(in) THEN SIZE_MAX ELSE VertexKey(in[p])]

LoadValues(in) ==
  [p \in 1..Capacity |-> IF p - 1 >= Len(in) THEN ZeroVertex ELSE in[p]]

\* Mutant of LoadInds: every slot is given the index 0.
LoadIndsAllFirst(in, inds) ==
  [p \in 1..Capacity |-> IF p - 1 >= Len(in) THEN -1 ELSE 0]

LoadInds(in, inds) ==
  [p \in 1..Capacity |-> IF p - 1 >= Len(in) THEN -1 ELSE inds[p]]

RECURSIVE InsertByKey(_, _, _)
\* perm with slot p inserted behind every slot whose key is not larger.
InsertByKey(perm, keys, p) ==
  IF perm = <<>> THEN <<p>>
  ELSE IF KeyLess(keys[p], keys[Head(perm)]) THEN <<p>> \o perm
  ELSE <<Head(perm)>> \o InsertByKey(Tail(perm), keys, p)

RECURSIVE SortPermFrom(_, _)
SortPermFrom(keys, n) ==
  IF n = 0 THEN <<>>
  ELSE InsertByKey(SortPermFrom(keys, n - 1), keys, n)

\* Mutant of BlockRadixSort: the slots are left in their order of loading.
BlockRadixSortLeavesOrder(keys) == [p \in 1..Len(keys) |-> p]

\* cub::BlockRadixSort::Sort(keys, values): the slots in ascending key
\* order, slots of equal key in their order of loading.
BlockRadixSort(keys) == SortPermFrom(keys, Len(keys))

\* Mutant of FlagHeads: every slot is flagged.
FlagEvery(keys) == [p \in 1..Len(keys) |-> 1]

\* cub::BlockDiscontinuity::FlagHeads(flags, keys, cub::Inequality())
FlagHeads(keys) ==
  [p \in 1..Len(keys) |-> IF p = 1 \/ keys[p] # keys[p - 1] THEN 1 ELSE 0]

RECURSIVE SumTo(_, _)
SumTo(flags, p) == IF p = 0 THEN 0 ELSE flags[p] + SumTo(flags, p - 1)

\* Mutant of InclusiveSum: an exclusive prefix sum.
ExclusiveSum(flags) == [p \in 1..Len(flags) |-> SumTo(flags, p - 1)]

\* cub::BlockScan::InclusiveSum(flags, sums)
InclusiveSum(flags) == [p \in 1..Len(flags) |-> SumTo(flags, p)]

\* Mutant of ValidSlots: the last slot below num_vals is left out.
ValidSlotsBelowLast(num_vals) == {p \in 1..Capacity : p < num_vals}

\* The slots the kernels' output loops handle: block_offset + i < num_vals.
ValidSlots(num_vals) == {p \in 1..Capacity : p - 1 < num_vals}

\* An output buffer of n slots before the kernel runs.
Blank(n) == [i \in 1..n |-> Unwritten]

\* An element of an index buffer that no kernel has written.
UnwrittenIndex == -1

\* An output index buffer of n elements before the kernel runs.
BlankIndices(n) == [i \in 1..n |-> UnwrittenIndex]

\* weldSingleBlockThrustAsync
WeldSingleBlock(in, inds) ==
  LET out == ThrustUnique(ThrustSort(in))
  IN [vertices |-> out,
      indices |-> [i \in 1..Len(inds) |->
                     IF i <= Len(in) THEN LowerBound(out, in[i])
                     ELSE inds[i]]]

\* blockSortKernel: d_out
BlockSortKernel(in) ==
  LET keys == LoadKeys(in)
      values == LoadValues(in)
      perm == BlockRadixSort(keys)
  IN [i \in 1..Len(in) |->
        IF i \in ValidSlots(Len(in)) THEN values[perm[i]] ELSE Unwritten]

CubOnly == UNCHANGED <<trackerVars, weldVars>>

\* A step of the device, or of an entry point before it copies a count.
DeviceOnly == CubOnly /\ UNCHANGED <<num_out_host, output_size>>

\* The test before each LOG(ERROR) << "Input vertices vector too long!":
\* input_vertices->size() >= kNumThreads * kNumItemsPerThread, the numbers
\* the kernel is instantiated with.
InputTooLong(size) == size >= BLOCK_THREADS * ITEMS_PER_THREAD

num_vals == Len(d_in)

\* weldSingleBlockThrustAsync(input_vertices, input_indices, ...)
RunThrust ==
  /\ kpc = "thrust"
  /\ thrust' = WeldSingleBlock(d_in, inds_in)
  /\ kpc' = "s_sort"
  /\ UNCHANGED <<logged, d_in, inds_in, thread_keys, thread_values, thread_inds,
                 head_flags, head_indices, output_index, item, comb,
                 sorted_out, uniq>>
  /\ DeviceOnly

\* combinedSingleBlockKernel: output_index = 0 and the load loop.
CombinedLoad ==
  /\ kpc = "c_load"
  /\ logged' = IF InputTooLong(num_vals) THEN logged \cup {"combined"}
               ELSE logged
  /\ output_index' = 0
  /\ thread_keys' = LoadKeys(d_in)
  /\ thread_inds' = LoadInds(d_in, inds_in)
  /\ kpc' = "c_sort"
  /\ UNCHANGED <<d_in, inds_in, thread_values, head_flags, head_indices,
                 item, comb, sorted_out, uniq, thrust>>
  /\ DeviceOnly

\* BlockRadixSortT(...).Sort(thread_keys, thread_inds)
CombinedSort ==
  /\ kpc = "c_sort"
  /\ LET perm == BlockRadixSort(thread_keys)
     IN /\ thread_keys' = [p \in 1..Capacity |-> thread_keys[perm[p]]]
        /\ thread_inds' = [p \in 1..Capacity |-> thread_inds[perm[p]]]
  /\ kpc' = "c_flag"
  /\ UNCHANGED <<logged, d_in, inds_in, thread_values, head_flags, head_indices,
                 output_index, item, comb, sorted_out, uniq, thrust>>
  /\ DeviceOnly

\* BlockDiscontinuityT(...).FlagHeads(head_flags, thread_keys, ...)
CombinedFlag ==
  /\ kpc = "c_flag"
  /\ head_flags' = FlagHeads(thread_keys)
  /\ kpc' = "c_scan"
  /\ UNCHANGED <<logged, d_in, inds_in, thread_keys, thread_values, thread_inds,
                 head_indices, output_index, item, comb, sorted_out, uniq,
                 thrust>>
  /\ DeviceOnly

\* BlockScanT(...).InclusiveSum(head_flags, head_indices)
CombinedScan ==
  /\ kpc = "c_scan"
  /\ head_indices' = InclusiveSum(head_flags)
  /\ kpc' = "c_write"
  /\ UNCHANGED <<logged, d_in, inds_in, thread_keys, thread_values, thread_inds,
                 head_flags, output_index, item, comb, sorted_out, uniq,
                 thrust>>
  /\ DeviceOnly

\* The slots whose thread writes d_out[s] (s from 0).
HeadOfSlot(s) ==
  {p \in ValidSlots(num_vals) : head_flags[p] = 1 /\ head_indices[p] - 1 = s}

\* The slots whose thread writes inds_out[j] (j from 0).
SlotOfInput(j) == {p \in ValidSlots(num_vals) : thread_inds[p] = j}

RECURSIVE MaxOf(_)
MaxOf(S) ==
  IF S = {} THEN 0
  ELSE LET x == CHOOSE y \in S : TRUE
           m == MaxOf(S \ {x})
       IN IF x > m THEN x ELSE m

\* The output loop of combinedSingleBlockKernel. With inds_in the identity
\* no two threads write the same element, and atomicMax is commutative.
CombinedWrite ==
  /\ kpc = "c_write"
  /\ comb' =
       [comb EXCEPT
          !.d_out = [k \in 1..Len(comb.d_out) |->
                       IF HeadOfSlot(k - 1) # {}
                       THEN d_in[thread_inds[CHOOSE p \in HeadOfSlot(k - 1) :
                                               TRUE] + 1]
                       ELSE comb.d_out[k]],
          !.inds_out = [k \in 1..Len(comb.inds_out) |->
                          IF SlotOfInput(k - 1) # {}
                          THEN head_indices[CHOOSE p \in SlotOfInput(k - 1) :
                                              TRUE] - 1
                          ELSE comb.inds_out[k]]]
  /\ output_index' =
       MaxOf({output_index} \cup
             {head_indices[p] : p \in {q \in ValidSlots(num_vals) :
                                          head_flags[q] = 1}})
  /\ kpc' = "c_report"
  /\ UNCHANGED <<logged, d_in, inds_in, thread_keys, thread_values, thread_inds,
                 head_flags, head_indices, item, sorted_out, uniq, thrust>>
  /\ DeviceOnly

\* Thread 0: *num_out = output_index
CombinedReport ==
  /\ kpc = "c_report"
  /\ comb' = [comb EXCEPT !.num_out = output_index]
  /\ kpc' = "c_done"
  /\ UNCHANGED <<logged, d_in, inds_in, thread_keys, thread_values, thread_inds,
                 head_flags, head_indices, output_index, item, sorted_out,
                 uniq, thrust>>
  /\ DeviceOnly

\* What a copy of a device int made now holds: the value the kernel wrote
\* or, when nothing has written it, what the allocation happens to hold.
StaleCounts == {0, Capacity + 1}

DeviceScalar(n) == IF n = -1 THEN StaleCounts ELSE {n}

\* combinedSingleBlockKernel is queued on cuda_stream, running or ended.
CombinedLaunched ==
  kpc \in {"c_sort", "c_flag", "c_scan", "c_write", "c_report", "c_done"}

\* combinedSingleBlockCubAsync after the launch, with no wait for
\* cuda_stream: num_out.clone(MemoryType::kHost) and
\* output_vertices->resizeAsync(*num_out_host, CudaStreamOwning()).
CombinedClone ==
  /\ CombinedLaunched
  /\ num_out_host.combined = NotCloned
  /\ \E v \in DeviceScalar(comb.num_out) :
        /\ num_out_host' = [num_out_host EXCEPT !.combined = v]
        /\ output_size' = [output_size EXCEPT !.combined = v]
  /\ UNCHANGED <<logged, d_in, inds_in, kpc, thread_keys, thread_values,
                 thread_inds, head_flags, head_indices, output_index, item,
                 comb, sorted_out, uniq, thrust>>
  /\ CubOnly

\* sortSingleBlockCubAsync: blockSortKernel on the input.
RunBlockSort ==
  /\ kpc = "s_sort"
  /\ logged' = IF InputTooLong(num_vals) THEN logged \cup {"sort"}
               ELSE logged
  /\ sorted_out' = BlockSortKernel(d_in)
  /\ kpc' = "u_load"
  /\ UNCHANGED <<d_in, inds_in, thread_keys, thread_values, thread_inds,
                 head_flags, head_indices, output_index, item, comb, uniq,
                 thrust>>
  /\ DeviceOnly

\* blockUniqueKernel on the key-sorted buffer: the load loop, and thread 0
\* zeroes output_index; then the first __syncthreads().
UniqueLoad ==
  /\ kpc = "u_load"
  /\ logged' = IF InputTooLong(Len(sorted_out)) THEN logged \cup {"unique"}
               ELSE logged
  /\ thread_keys' = LoadKeys(sorted_out)
  /\ thread_values' = LoadValues(sorted_out)
  /\ output_index' = 0
  /\ item' = [t \in 0..(BLOCK_THREADS - 1) |-> 0]
  /\ kpc' = "u_flag"
  /\ UNCHANGED <<d_in, inds_in, thread_inds, head_flags, head_indices, comb,
                 sorted_out, uniq, thrust>>
  /\ DeviceOnly

\* FlagHeads, between two barriers.
UniqueFlag ==
  /\ kpc = "u_flag"
  /\ head_flags' = FlagHeads(thread_keys)
  /\ kpc' = "u_claim"
  /\ UNCHANGED <<logged, d_in, inds_in, thread_keys, thread_values, thread_inds,
                 head_indices, output_index, item, comb, sorted_out, uniq,
                 thrust>>
  /\ DeviceOnly

\* One iteration of thread t's output loop:
\* d_out[atomicAdd(&output_index, 1)] = thread_values[i] for a flagged slot.
UniqueClaim(t) ==
  /\ kpc = "u_claim"
  /\ item[t] < ITEMS_PER_THREAD
  /\ LET p == t * ITEMS_PER_THREAD + item[t] + 1
     IN IF p \in ValidSlots(Len(sorted_out)) /\ head_flags[p] = 1
        THEN /\ uniq' = [uniq EXCEPT !.d_out[output_index + 1] =
                                        thread_values[p]]
             /\ output_index' = output_index + 1
        ELSE UNCHANGED <<uniq, output_index>>
  /\ item' = [item EXCEPT ![t] = @ + 1]
  /\ UNCHANGED <<logged, d_in, inds_in, kpc, thread_keys, thread_values,
                 thread_inds, head_flags, head_indices, comb, sorted_out,
                 thrust>>
  /\ DeviceOnly

\* After the last barrier thread 0 writes *num_out = output_index.
UniqueReport ==
  /\ kpc = "u_claim"
  /\ \A t \in 0..(BLOCK_THREADS - 1) : item[t] = ITEMS_PER_THREAD
  /\ uniq' = [uniq EXCEPT !.num_out = output_index]
  /\ kpc' = "u_sync"
  /\ UNCHANGED <<logged, d_in, inds_in, thread_keys, thread_values, thread_inds,
                 head_flags, head_indices, output_index, item, comb,
                 sorted_out, thrust>>
  /\ DeviceOnly

\* uniqueSingleBlockCubAsync after the launch: cuda_stream.synchronize()
\* returns when blockUniqueKernel has ended, then num_out.clone(
\* MemoryType::kHost) and output_vertices->resizeAsync(*num_out_host, ...).
UniqueClone ==
  /\ kpc = "u_sync"
  /\ \E v \in DeviceScalar(uniq.num_out) :
        /\ num_out_host' = [num_out_host EXCEPT !.unique = v]
        /\ output_size' = [output_size EXCEPT !.unique = v]
  /\ kpc' = "c_load"
  /\ UNCHANGED <<logged, d_in, inds_in, thread_keys, thread_values,
                 thread_inds, head_flags, head_indices, output_index, item,
                 comb, sorted_out, uniq, thrust>>
  /\ CubOnly

\* Inputs that fill the thread block exactly, and inputs one vertex longer:
\* two vertices alternating, and a last vertex of its own choice.
BoundaryInputs ==
  {[i \in 1..n |-> IF i = n THEN c ELSE IF i % 2 = 1 THEN a ELSE b] :
     n \in {Capacity, Capacity + 1}, a \in CubPool, b \in CubPool,
     c \in CubPool}

\* The input buffers the routines are run on.
CubInputs ==
  UNION {[1..n -> CubPool] : n \in 0..MaxVerts} \cup BoundaryInputs

\* An input buffer with its identity index list, and output buffers of the
\* input's size.
CubInit ==
  /\ d_in \in CubInputs
  /\ inds_in = IdentityIndices(Len(d_in))
  /\ comb = [d_out |-> Blank(Len(d_in)), inds_out |-> BlankIndices(Len(d_in)),
             num_out |-> -1]
  /\ uniq = [d_out |-> Blank(Len(d_in)), num_out |-> -1]
  /\ sorted_out = Blank(Len(d_in))
  /\ kpc = "thrust"
  /\ thread_keys = <<>>
  /\ thread_values = <<>>
  /\ thread_inds = <<>>
  /\ head_flags = <<>>
  /\ head_indices = <<>>
  /\ output_index = 0
  /\ item = <<>>
  /\ thrust = [vertices |-> <<>>, indices |-> <<>>]
  /\ logged = {}
  /\ num_out_host = [combined |-> NotCloned, unique |-> NotCloned]
  /\ output_size = [combined |-> Len(d_in), unique |-> Len(d_in)]

InitCub == TrackerOff /\ WeldIdle /\ CubInit

NextCub ==
  \/ RunThrust
  \/ RunBlockSort
  \/ UniqueLoad
  \/ UniqueFlag
  \/ \E t \in 0..(BLOCK_THREADS - 1) : UniqueClaim(t)
  \/ UniqueReport
  \/ UniqueClone
  \/ CombinedLoad
  \/ CombinedSort
  \/ CombinedFlag
  \/ CombinedScan
  \/ CombinedWrite
  \/ CombinedReport
  \/ CombinedClone

SpecCub == InitCub /\ [][NextCub]_vars

-----------------------------------------------------------------------------
(***************************************************************************)
(* Properties of the single-block routines (checked under SpecCub)         *)
(***************************************************************************)

InputSlots == 1..Len(d_in)

\* combinedSingleBlockKernel has run to its end.
CombinedDone == kpc = "c_done"

\* An entry point has copied the count to the host and resized its output.
Resized(e) == num_out_host[e] # NotCloned

\* Every routine has run to its end.
AllDone == CombinedDone /\ Resized("combined")

\* Two input slots hold different vertices with the same quantised key.
NearMissPair(i, j) ==
  /\ d_in[i] # d_in[j]
  /\ VertexKey(d_in[i]) = VertexKey(d_in[j])

\* The slots (from 0) of an output buffer of count vertices whose vertex has
\* the key k.
SlotsWithKey(out, count, k) ==
  {s \in 0..(count - 1) : VertexKey(out[s + 1]) = k}

\* C9: in the combined kernel, with identity input indices and a size within
\* the capacity, *num_out is the number of distinct quantised keys, every
\* inds_out[j] lies in [0, *num_out), and two input positions have the same
\* inds_out exactly when their keys are equal.
C9_CombinedRemap ==
  (CombinedDone /\ num_vals <= Capacity) =>
    /\ comb.num_out = Cardinality({VertexKey(d_in[j]) : j \in InputSlots})
    /\ \A j \in InputSlots :
          comb.inds_out[j] \in 0..(comb.num_out - 1)
    /\ \A i, j \in InputSlots :
          (comb.inds_out[i] = comb.inds_out[j]) <=>
            (VertexKey(d_in[i]) = VertexKey(d_in[j]))

\* C9 witness: the combined kernel has compacted an input with duplicate
\* keys and several key groups.
C9_Witness ==
  /\ CombinedDone
  /\ num_vals > 2
  /\ comb.num_out > 1
  /\ comb.num_out < num_vals

\* C10: for a pair of input vertices that differ but share a quantised key,
\* the combined kernel and the unique-only kernel (on the key-sorted input)
\* each output one vertex for the pair, and the unbounded weld keeps both;
\* on inputs where equal keys imply equal vertices the unbounded weld and
\* the combined kernel report the same count.
C10_ExactVersusQuantised ==
  (AllDone /\ num_vals <= Capacity) =>
    /\ \A i, j \in InputSlots :
          NearMissPair(i, j) =>
            /\ comb.inds_out[i] = comb.inds_out[j]
            /\ Cardinality(SlotsWithKey(comb.d_out, comb.num_out,
                                        VertexKey(d_in[i]))) = 1
            /\ Cardinality(SlotsWithKey(uniq.d_out, uniq.num_out,
                                        VertexKey(d_in[i]))) = 1
            /\ thrust.indices[i] # thrust.indices[j]
            /\ thrust.vertices[thrust.indices[i] + 1] = d_in[i]
            /\ thrust.vertices[thrust.indices[j] + 1] = d_in[j]
    /\ (\A i, j \in InputSlots :
           VertexKey(d_in[i]) = VertexKey(d_in[j]) => d_in[i] = d_in[j])
         => Len(thrust.vertices) = comb.num_out

\* C10 witness: all routines have run on an input that holds a near-miss
\* pair and a vertex of another cell.
C10_Witness ==
  /\ AllDone
  /\ \E i, j \in InputSlots : NearMissPair(i, j)
  /\ comb.num_out > 1
  /\ uniq.num_out = comb.num_out
  /\ Len(thrust.vertices) > comb.num_out

\* blockSortKernel has run to its end.
SortDone == kpc \notin {"off", "thrust", "s_sort"}

\* The input is at the capacity of the thread block, or one vertex above.
AtBoundary == num_vals \in {Capacity, Capacity + 1}

\* Number of the first m slots of s that hold v.
Count(s, m, v) == Cardinality({i \in 1..m : s[i] = v})

\* The quantised keys of the first m slots of s.
KeysOf(s, m) == {VertexKey(s[i]) : i \in 1..m}

\* C11: on an input of exactly Capacity vertices every kernel handles every
\* vertex, and on an input of Capacity + 1 vertices every kernel runs to its
\* end and handles the first Capacity vertices, leaving out the last one: the
\* sort writes the first Capacity vertices in key order and nothing else,
\* the combined kernel remaps and counts the first Capacity vertices only,
\* and the unique-only kernel counts the key runs of its first Capacity
\* slots.
C11_CapacityBoundary ==
  /\ (CombinedDone /\ AtBoundary) =>
        /\ \A j \in 1..Capacity :
              /\ comb.inds_out[j] \in 0..(comb.num_out - 1)
              /\ VertexKey(comb.d_out[comb.inds_out[j] + 1]) =
                   VertexKey(d_in[j])
        /\ comb.num_out = Cardinality(KeysOf(d_in, Capacity))
        /\ \A j \in (Capacity + 1)..num_vals :
              comb.inds_out[j] = UnwrittenIndex
  /\ (SortDone /\ AtBoundary) =>
        /\ \A v \in CubPool :
              Count(sorted_out, Capacity, v) = Count(d_in, Capacity, v)
        /\ \A p \in 1..(Capacity - 1) :
              ~KeyLess(VertexKey(sorted_out[p + 1]), VertexKey(sorted_out[p]))
        /\ \A j \in (Capacity + 1)..num_vals : sorted_out[j] = Unwritten
  /\ (AllDone /\ AtBoundary) =>
        /\ uniq.num_out = Cardinality(KeysOf(sorted_out, Capacity))
        /\ KeysOf(uniq.d_out, uniq.num_out) = KeysOf(sorted_out, Capacity)
        /\ \A j \in (uniq.num_out + 1)..num_vals : uniq.d_out[j] = Unwritten

\* C11 witness: every routine has run on an input of Capacity + 1 vertices
\* whose last vertex has a key of its own, and that key is in no result.
C11_Witness ==
  /\ AllDone
  /\ num_vals = Capacity + 1
  /\ VertexKey(d_in[num_vals]) \notin KeysOf(d_in, Capacity)
  /\ comb.num_out = 2
  /\ uniq.num_out = 2
  /\ VertexKey(d_in[num_vals]) \notin KeysOf(comb.d_out, comb.num_out)

\* blockUniqueKernel has run to its end.
UniqueDone ==
  kpc \notin {"off", "thrust", "s_sort", "u_load", "u_flag", "u_claim"}

\* blockUniqueKernel's input is within the capacity of the thread block.
UniqueWithin == Len(sorted_out) <= Capacity

\* The slots of blockUniqueKernel's input that begin a run of equal keys.
Heads ==
  {p \in 1..Len(sorted_out) :
     p = 1 \/ VertexKey(sorted_out[p]) # VertexKey(sorted_out[p - 1])}

\* The heads whose thread's loop has passed them.
Claimed ==
  {p \in Heads :
     item[(p - 1) \div ITEMS_PER_THREAD] > (p - 1) % ITEMS_PER_THREAD}

\* blockUniqueKernel's d_out holds the vertices of the heads H, each in a
\* slot of its own among the first Cardinality(H), and nothing else.
WrittenAre(H) ==
  /\ \A p \in H :
        Cardinality({s \in 1..Cardinality(H) :
                       uniq.d_out[s] = sorted_out[p]}) = 1
  /\ \A s \in (Cardinality(H) + 1)..Len(uniq.d_out) :
        uniq.d_out[s] = Unwritten

\* C18: in blockUniqueKernel on a key-sorted input within capacity, in every
\* order of the threads' atomicAdd claims: output_index is 0 before any
\* claim, at every moment the heads claimed so far are the content of the
\* first output_index slots of d_out, one slot each, with nothing else
\* written, *num_out is not written while claims go on, and at the end
\* *num_out is the number of runs of equal keys.
C18_AtomicCompaction ==
  UniqueWithin =>
    /\ kpc = "u_flag" => (output_index = 0 /\ uniq.num_out = -1)
    /\ kpc = "u_claim" =>
         /\ output_index = Cardinality(Claimed)
         /\ WrittenAre(Claimed)
         /\ uniq.num_out = -1
    /\ kpc = "u_sync" => output_index = Cardinality(Heads)
    /\ UniqueDone =>
         /\ WrittenAre(Heads)
         /\ uniq.num_out = Cardinality(Heads)

\* C18 witness: the kernel has ended with three runs reported, and a later
\* thread's head took the first output slot.
C18_Witness ==
  /\ AllDone
  /\ UniqueWithin
  /\ uniq.num_out > 2
  /\ uniq.d_out[1] # sorted_out[1]

\* C19 (as claimed): each of the three entry points has logged the error
\* exactly when the input has more vertices than the thread block has
\* slots.
C19_LogsOnlyAboveCapacity ==
  AllDone =>
    \A e \in {"sort", "unique", "combined"} :
       (e \in logged) <=> (num_vals > Capacity)

\* The first input position whose vertex has the key of position j's.
FirstWithKey(j) ==
  CHOOSE i \in InputSlots :
    /\ VertexKey(d_in[i]) = VertexKey(d_in[j])
    /\ \A h \in 1..(i - 1) : VertexKey(d_in[h]) # VertexKey(d_in[j])

\* C20: in the combined kernel, with identity input indices and a size
\* within the capacity, the output slot of every input position j holds the
\* input vertex of the first position with j's key, so the vertex at
\* d_out[inds_out[j]] has the key of d_in[j].
C20_RepresentativeIsFirst ==
  (CombinedDone /\ num_vals <= Capacity) =>
    \A j \in InputSlots :
       /\ comb.inds_out[j] \in 0..(comb.num_out - 1)
       /\ comb.d_out[comb.inds_out[j] + 1] = d_in[FirstWithKey(j)]
       /\ VertexKey(comb.d_out[comb.inds_out[j] + 1]) = VertexKey(d_in[j])

\* C20 witness: of two different vertices with one key that follow a vertex
\* of another key, the earlier one is in the output slot of both.
C20_Witness ==
  /\ CombinedDone
  /\ num_vals <= Capacity
  /\ comb.num_out > 1
  /\ \E i, j \in InputSlots :
        /\ 1 < i
        /\ i < j
        /\ NearMissPair(i, j)
        /\ VertexKey(d_in[1]) # VertexKey(d_in[i])
        /\ comb.d_out[comb.inds_out[j] + 1] = d_in[i]

\* C22 (as claimed): in uniqueSingleBlockCubAsync and in
\* combinedSingleBlockCubAsync the host copies *num_out only when the kernel
\* has written it, and the output vertices are resized to the count the
\* kernel wrote.
C22_ResizedToKernelCount ==
  /\ Resized("combined") =>
        /\ comb.num_out # -1
        /\ output_size.combined = comb.num_out
  /\ Resized("unique") =>
        /\ uniq.num_out # -1
        /\ output_size.unique = uniq.num_out

\* The half of C22 about uniqueSingleBlockCubAsync.
UniqueResizedToKernelCount ==
  Resized("unique") =>
    /\ uniq.num_out # -1
    /\ output_size.unique = uniq.num_out

====
